---- MODULE Spec2Model ----
(***************************************************************************)
(* A model of scripts/SimplexUI/interfaceModel.py: the item <-> index      *)
(* navigation of SimplexModel, the begin/end brackets of ContextModel, the *)
(* batched tick update, the name / dependency filters of the proxy models  *)
(* and the falloff aggregation model.                                      *)
(*                                                                         *)
(* The domain objects (interfaceItems: Simplex, Group, Slider, Combo, ...) *)
(* are not part of this file's source; they are modelled as records with   *)
(* the attributes interfaceModel.py reads from them.                       *)
(***************************************************************************)
EXTENDS Integers, Sequences, FiniteSets, TLC

VARIABLES
    sliderGroups,   \* simplex.sliderGroups : list of Group
    items,          \* Group.items          : list of Slider / Combo / Traversal
    group,          \* Slider.group, Combo.group, Traversal.group
    pairs,          \* Combo.pairs          : list of ComboPair
    progPairs,      \* Progression.pairs    : list of ProgPair
    call,           \* the handler invocation that produced the current state
    signals,        \* the Qt signals (and the yield) that invocation went through
    raised,         \* the error that invocation propagated to its caller
    updatePairs,    \* the batch updateTickValues is given
    calls,          \* the calls into the simplex that updateTickValues made
    _filterString,  \* SimplexFilterModel._filterString : the tokens
    _filterReg,     \* SimplexFilterModel._filterReg    : the compiled tokens
    isolateList,    \* SimplexFilterModel.isolateList
    requires,       \* ComboFilterModel.requires
    filterRequiresAll,
    filterRequiresAny,
    filterRequiresOnly,
    filterShapes,   \* ComboFilterModel.filterShapes
    progFalloffs,   \* Progression.falloffs     : list of Falloff
    sliders,        \* FalloffModel.sliders     : the selection
    _checks,        \* FalloffModel._checks     : dict Falloff -> list of Slider
    line,           \* FalloffModel.line
    returned,       \* what the last FalloffModel handler returned
    indexes,        \* the indexes a coercion helper is given
    coerced         \* what the coercion helper returned or raised

graphVars == <<sliderGroups, items, group, pairs, progPairs>>
bracketVars == <<call, signals, raised>>
tickVars == <<updatePairs, calls>>
filterVars ==
    <<_filterString, _filterReg, isolateList, requires, filterRequiresAll,
      filterRequiresAny, filterRequiresOnly, filterShapes>>
falloffVars == <<progFalloffs, sliders, _checks, line, returned>>
coerceVars == <<indexes, coerced>>
vars == <<graphVars, bracketVars, tickVars, filterVars, falloffVars, coerceVars>>

-----------------------------------------------------------------------------
(* Bounds of the model *)

\* ComboPairs that exist for a Combo (attached to it or not)
MaxPairs == 2
\* ProgPairs that exist for an editable Progression
MaxShapes == 2
\* (item, value) pairs in one batch of updateTickValues
MaxBatch == 3
\* items in one selection handed to FalloffModel.setSliders
MaxSel == 2
\* indexes in one selection handed to a coercion helper
MaxIdx == 2

-----------------------------------------------------------------------------
(* Domain objects: identity and the attributes read by interfaceModel.py *)

Item(k, ok, on, n) == [k |-> k, ok |-> ok, on |-> on, n |-> n]

\* Python's None
None == Item("None", "", 0, 0)

simplex == Item("Simplex", "", 0, 0)
GroupItem(n) == Item("Group", "", 0, n)
SliderItem(n) == Item("Slider", "", 0, n)
ComboItem(n) == Item("Combo", "", 0, n)
TraversalItem(n) == Item("Traversal", "", 0, n)

\* ctrl.prog
prog(ctrl) == Item("Progression", ctrl.k, ctrl.n, 0)
\* Progression.controller
controller(p) == Item(p.ok, "", 0, p.on)
ProgPairItem(p, n) == Item("ProgPair", p.ok, p.on, n)
\* ProgPair.prog
pairProg(pp) == Item("Progression", pp.ok, pp.on, 0)
ComboPairItem(c, n) == Item("ComboPair", "Combo", c.n, n)
\* ComboPair.combo
pairCombo(cp) == ComboItem(cp.on)
TravPairItem(t, n) == Item("TravPair", "Traversal", t.n, n)
\* TravPair.traversal
pairTraversal(tp) == TraversalItem(tp.on)
\* Traversal.progressCtrl, Traversal.multiplierCtrl
progressCtrl(t) == TravPairItem(t, 0)
multiplierCtrl(t) == TravPairItem(t, 1)
\* TravPair.usageIndex(): "progress" is slot 0, "multiplier" is slot 1
usageIndex(tp) == tp.n

\* GroupItem(5) is a slider Group that is in no list of the simplex
SliderGroupItems == {GroupItem(1), GroupItem(2), GroupItem(5)}
ComboGroupItem == GroupItem(3)
TraversalGroupItem == GroupItem(4)
Groups == SliderGroupItems \cup {ComboGroupItem, TraversalGroupItem}
Sliders == {SliderItem(1), SliderItem(2)}
Combos == {ComboItem(1)}
Traversals == {TraversalItem(1)}
Controls == Sliders \cup Combos \cup Traversals
Progressions == {prog(c) : c \in Controls}
\* The Progressions whose shapes the editing operations add and remove
EditableProgs == {prog(SliderItem(1)), prog(ComboItem(1))}
\* The ProgPairs that exist for a Progression (in its list or not)
ComboPairs == {ComboPairItem(c, n) : c \in Combos, n \in 1..MaxPairs}
ShapePool(p) ==
    IF p = prog(ComboItem(1)) THEN 1..MaxShapes
    ELSE IF p = prog(SliderItem(2)) THEN {1, 2} ELSE {1}
ProgPairs == UNION {{ProgPairItem(p, n) : n \in ShapePool(p)} : p \in Progressions}
TravPairs == UNION {{progressCtrl(t), multiplierCtrl(t)} : t \in Traversals}
AllItems ==
    {simplex} \cup Groups \cup Controls \cup Progressions
        \cup ComboPairs \cup ProgPairs \cup TravPairs

\* Group.groupType
groupType(g) ==
    IF g \in SliderGroupItems THEN "Slider"
    ELSE IF g = ComboGroupItem THEN "Combo" ELSE "Traversal"

\* simplex.comboGroups, simplex.traversalGroups
comboGroups == <<ComboGroupItem>>
traversalGroups == <<TraversalGroupItem>>

-----------------------------------------------------------------------------
(* Python list operations *)

\* list[i]: <<x>>, or <<>> for IndexError; a negative i counts from the end
PyGet(list, i) ==
    IF 0 <= i /\ i < Len(list) THEN <<list[i + 1]>>
    ELSE IF i < 0 /\ 0 - Len(list) <= i THEN <<list[Len(list) + i + 1]>>
    ELSE <<>>

\* list.index(x): <<i>>, or <<>> for ValueError
PyIndex(list, x) ==
    IF \E i \in 1..Len(list) : list[i] = x
    THEN <<(CHOOSE i \in 1..Len(list) :
                list[i] = x /\ \A j \in 1..(i - 1) : list[j] # x) - 1>>
    ELSE <<>>

\* list.insert(i, x) for 0 <= i <= len(list)
PyInsert(list, i, x) == SubSeq(list, 1, i) \o <<x>> \o SubSeq(list, i + 1, Len(list))

\* list.remove(x) for x in list
PyRemove(list, x) ==
    LET i == PyIndex(list, x)[1] + 1
    IN SubSeq(list, 1, i - 1) \o SubSeq(list, i + 1, Len(list))

Elems(list) == {list[i] : i \in 1..Len(list)}

-----------------------------------------------------------------------------
(* Qt: QModelIndex *)

\* QModelIndex(): the invalid index
QModelIndex == [row |-> 0 - 1, column |-> 0 - 1, ptr |-> None, model |-> FALSE]
\* QAbstractItemModel.createIndex(row, column, ptr)
createIndex(row, column, ptr) ==
    [row |-> row, column |-> column, ptr |-> ptr, model |-> TRUE]
\* QModelIndex.isValid()
isValid(idx) == idx.row >= 0 /\ idx.column >= 0 /\ idx.model
\* QModelIndex.internalPointer()
internalPointer(idx) == idx.ptr

-----------------------------------------------------------------------------
(* SimplexModel: the navigation over items *)

\* the try / except IndexError around a list lookup in getChildItem
ChildOrNone(list, row) == IF PyGet(list, row) = <<>> THEN None ELSE PyGet(list, row)[1]

simplexGroups == sliderGroups \o comboGroups \o traversalGroups

getChildItem(parent, row) ==
    CASE parent.k = "Simplex" -> ChildOrNone(simplexGroups, row)
      [] parent.k = "Group" -> ChildOrNone(items[parent], row)
      [] parent.k = "Slider" -> ChildOrNone(progPairs[prog(parent)], row)
      [] parent.k = "Combo" ->
            IF row = Len(pairs[parent]) THEN prog(parent)
            ELSE ChildOrNone(pairs[parent], row)
      [] parent.k = "Traversal" ->
            IF row = 0 THEN progressCtrl(parent)
            ELSE IF row = 1 THEN multiplierCtrl(parent)
            ELSE IF row = 2 THEN prog(parent) ELSE None
      [] parent.k = "Progression" -> ChildOrNone(progPairs[parent], row)
      [] parent.k = "None" -> IF row = 0 THEN simplex ELSE None
      [] OTHER -> None

\* <<row>>, or <<>> for None (also after the caught ValueError of list.index)
getItemRow(item) ==
    CASE item.k = "Group" -> PyIndex(simplexGroups, item)
      [] item.k = "Slider" -> PyIndex(items[group[item]], item)
      [] item.k = "ProgPair" -> PyIndex(progPairs[pairProg(item)], item)
      [] item.k = "Combo" -> PyIndex(items[group[item]], item)
      [] item.k = "ComboPair" -> PyIndex(pairs[pairCombo(item)], item)
      [] item.k = "Traversal" -> PyIndex(items[group[item]], item)
      [] item.k = "TravPair" -> <<usageIndex(item)>>
      [] item.k = "Progression" ->
            IF controller(item).k = "Slider" THEN <<Len(progPairs[item])>>
            ELSE IF controller(item).k = "Combo" THEN <<Len(progPairs[item])>>
            ELSE IF controller(item).k = "Traversal" THEN <<2>> ELSE <<>>
      [] item.k = "Simplex" -> <<0>>
      [] OTHER -> <<>>

getParentItem(item) ==
    CASE item.k = "Group" -> simplex
      [] item.k = "Slider" -> group[item]
      [] item.k = "Progression" -> controller(item)
      [] item.k = "Combo" -> group[item]
      [] item.k = "ComboPair" -> pairCombo(item)
      [] item.k = "TravPair" -> pairTraversal(item)
      [] item.k = "Traversal" -> group[item]
      [] item.k = "ProgPair" ->
            IF controller(pairProg(item)).k = "Slider"
            THEN controller(pairProg(item)) ELSE pairProg(item)
      [] OTHER -> None

getItemRowCount(item) ==
    CASE item.k = "Simplex" ->
            Len(sliderGroups) + Len(comboGroups) + Len(traversalGroups)
      [] item.k = "Group" -> Len(items[item])
      [] item.k = "Slider" -> Len(progPairs[prog(item)])
      [] item.k = "Combo" -> Len(pairs[item]) + 1
      [] item.k = "Traversal" -> 3
      [] item.k = "TravPair" -> 0
      [] item.k = "Progression" -> Len(progPairs[item])
      [] item.k = "None" -> 1
      [] OTHER -> 0

\* getItemAppendRow without its special case for a Combo
getItemAppendRow_NoComboCase(item) == getItemRowCount(item)

getItemAppendRow(item) ==
    IF item.k = "Combo" THEN Len(pairs[item]) ELSE getItemRowCount(item)

\* ContextModel.indexFromItem
indexFromItem(item, column) ==
    IF getItemRow(item) = <<>> THEN QModelIndex
    ELSE createIndex(getItemRow(item)[1], column, item)

\* SimplexModel.index
index(row, column, parIndex) ==
    LET child == getChildItem(internalPointer(parIndex), row)
    IN IF child = None THEN QModelIndex ELSE createIndex(row, column, child)

\* SimplexModel.parent
parent(idx) ==
    IF ~isValid(idx) THEN QModelIndex
    ELSE IF internalPointer(idx) = None THEN QModelIndex
    ELSE LET par == getParentItem(internalPointer(idx))
         IN IF getItemRow(par) = <<>> THEN QModelIndex
            ELSE createIndex(getItemRow(par)[1], 0, par)

\* SimplexModel.rowCount
rowCount(parIndex) == getItemRowCount(internalPointer(parIndex))

-----------------------------------------------------------------------------
(* ContextModel: the begin / end brackets *)

Sig(sig, par, row, dpar, drow) ==
    [sig |-> sig, par |-> par, row |-> row, dpar |-> dpar, drow |-> drow]
\* the with-body (the caller's mutation) runs at this point of a bracket
Yield == Sig("yield", QModelIndex, 0 - 1, QModelIndex, 0 - 1)
beginInsertRows(parIdx, row) == Sig("beginInsertRows", parIdx, row, QModelIndex, 0 - 1)
endInsertRows == Sig("endInsertRows", QModelIndex, 0 - 1, QModelIndex, 0 - 1)
beginRemoveRows(parIdx, row) == Sig("beginRemoveRows", parIdx, row, QModelIndex, 0 - 1)
endRemoveRows == Sig("endRemoveRows", QModelIndex, 0 - 1, QModelIndex, 0 - 1)
beginMoveRows(srcParIdx, row, destParIdx, destRow) ==
    Sig("beginMoveRows", srcParIdx, row, destParIdx, destRow)
endMoveRows == Sig("endMoveRows", QModelIndex, 0 - 1, QModelIndex, 0 - 1)
beginResetModel == Sig("beginResetModel", QModelIndex, 0 - 1, QModelIndex, 0 - 1)
endResetModel == Sig("endResetModel", QModelIndex, 0 - 1, QModelIndex, 0 - 1)

\* The signals one use of  with model.insertItemManager(par, row): <body>
\* goes through, the body included; the finally clause runs whether or not
\* the body raises.
\* insertItemManager signalling without looking at parIdx.isValid()
insertItemManager_AlwaysSignals(par, row) ==
    LET parIdx == indexFromItem(par, 0)
        r == IF row = 0 - 1 THEN getItemAppendRow(par) ELSE row
    IN <<beginInsertRows(parIdx, r), Yield, endInsertRows>>

insertItemManager(par, row) ==
    LET parIdx == indexFromItem(par, 0)
        r == IF row = 0 - 1 THEN getItemAppendRow(par) ELSE row
    IN (IF isValid(parIdx) THEN <<beginInsertRows(parIdx, r)>> ELSE <<>>)
        \o <<Yield>>
        \o (IF isValid(parIdx) THEN <<endInsertRows>> ELSE <<>>)

\* removeItemManager signalling the removal only after the body has run
removeItemManager_LateBegin(item) ==
    LET idx == indexFromItem(item, 0)
    IN <<Yield>>
        \o (IF isValid(idx)
            THEN <<beginRemoveRows(parent(idx), idx.row), endRemoveRows>> ELSE <<>>)

removeItemManager(item) ==
    LET idx == indexFromItem(item, 0)
    IN (IF isValid(idx) THEN <<beginRemoveRows(parent(idx), idx.row)>> ELSE <<>>)
        \o <<Yield>>
        \o (IF isValid(idx) THEN <<endRemoveRows>> ELSE <<>>)

moveItemManager(item, destPar, destRow) ==
    LET itemIdx == indexFromItem(item, 0)
        destParIdx == indexFromItem(destPar, 0)
        handled == isValid(itemIdx) /\ isValid(destParIdx)
        dr == IF destRow = 0 - 1 THEN getItemAppendRow(destPar) ELSE destRow
    IN (IF handled
        THEN <<beginMoveRows(parent(itemIdx), itemIdx.row, destParIdx, dr)>>
        ELSE <<>>)
        \o <<Yield>>
        \o (IF handled THEN <<endMoveRows>> ELSE <<>>)

resetModelManager == <<beginResetModel, Yield, endResetModel>>

-----------------------------------------------------------------------------
(* The callers' mutations of the domain graph (interfaceItems) *)

Graph ==
    [sliderGroups |-> sliderGroups, items |-> items, group |-> group,
     pairs |-> pairs, progPairs |-> progPairs]

SetGraph(g) ==
    /\ sliderGroups' = g.sliderGroups
    /\ items' = g.items
    /\ group' = g.group
    /\ pairs' = g.pairs
    /\ progPairs' = g.progPairs

\* the list of its owner an item lives in
OwnerList(item) ==
    CASE item.k \in {"Slider", "Combo", "Traversal"} -> items[group[item]]
      [] item.k = "ComboPair" -> pairs[pairCombo(item)]
      [] item.k = "ProgPair" -> progPairs[pairProg(item)]

InList(item) == item \in Elems(OwnerList(item))

\* owner's list gets child at position pos (the end for pos = -1)
AddChild(owner, child, pos) ==
    LET at(list) == PyInsert(list, IF pos = 0 - 1 THEN Len(list) ELSE pos, child)
    IN CASE child.k \in {"Slider", "Combo", "Traversal"} ->
                [Graph EXCEPT !.items[owner] = at(@), !.group[child] = owner]
         [] child.k = "ComboPair" -> [Graph EXCEPT !.pairs[owner] = at(@)]
         [] child.k = "ProgPair" -> [Graph EXCEPT !.progPairs[owner] = at(@)]

DropChild(item) ==
    CASE item.k \in {"Slider", "Combo", "Traversal"} ->
            [Graph EXCEPT !.items[group[item]] = PyRemove(@, item)]
      [] item.k = "ComboPair" -> [Graph EXCEPT !.pairs[pairCombo(item)] = PyRemove(@, item)]
      [] item.k = "ProgPair" -> [Graph EXCEPT !.progPairs[pairProg(item)] = PyRemove(@, item)]

\* a control leaves the list it is in (if any) and enters destGroup at pos
MoveChild(item, destGroup, pos) ==
    LET left == IF InList(item)
                THEN [items EXCEPT ![group[item]] = PyRemove(@, item)] ELSE items
        p == IF pos = 0 - 1 \/ pos > Len(left[destGroup])
             THEN Len(left[destGroup]) ELSE pos
    IN [Graph EXCEPT !.items = [left EXCEPT ![destGroup] = PyInsert(@, p, item)],
                     !.group[item] = destGroup]

\* the owner whose list holds (or will hold) an item
Owner(item) ==
    CASE item.k \in {"Slider", "Combo", "Traversal"} -> group[item]
      [] item.k = "ComboPair" -> pairCombo(item)
      [] item.k = "ProgPair" -> pairProg(item)

\* the items the editing operations add, remove and move
Editable ==
    {SliderItem(1)} \cup ComboPairs
        \cup {pp \in ProgPairs : pairProg(pp) \in EditableProgs}

\* the groups a control may be put in
HomeGroups(c) == IF c.k = "Slider" THEN SliderGroupItems ELSE {ComboGroupItem}

\* the parents a caller may name for an insertion into owner's list
InsertParents(child) ==
    IF child.k \in {"Slider", "Combo"} THEN HomeGroups(child)
    ELSE {Owner(child), getParentItem(child)}

InsertOwner(child, par) == IF child.k = "ProgPair" THEN pairProg(child) ELSE par

OwnerLen(child, par) ==
    CASE child.k \in {"Slider", "Combo", "Traversal"} -> Len(items[par])
      [] child.k = "ComboPair" -> Len(pairs[par])
      [] child.k = "ProgPair" -> Len(progPairs[pairProg(child)])

-----------------------------------------------------------------------------
(* The operations *)

Bracketed(op, item, par, row, fails, trace, g) ==
    /\ call' = [op |-> op, item |-> item, par |-> par, row |-> row, fails |-> fails]
    /\ signals' = trace
    /\ raised' = IF fails THEN "DomainError" ELSE "none"
    /\ SetGraph(IF fails THEN Graph ELSE g)
    /\ UNCHANGED <<tickVars, filterVars, falloffVars, coerceVars>>

\* with model.insertItemManager(par, row): <owner's list gets child>
Insert(child, par, row, fails) ==
    /\ child \in Editable
    /\ ~InList(child)
    /\ par \in InsertParents(child)
    /\ row \in (0 - 1)..OwnerLen(child, par)
    /\ Bracketed("insert", child, par, row, fails, insertItemManager(par, row),
                 AddChild(InsertOwner(child, par), child, row))

\* with model.removeItemManager(item): <item leaves its owner's list>
Remove(item, fails) ==
    /\ item \in Editable
    /\ InList(item)
    /\ Bracketed("remove", item, None, 0 - 1, fails, removeItemManager(item),
                 DropChild(item))

\* with model.moveItemManager(item, destPar, destRow): <item goes to destPar>
Move(item, destPar, destRow, fails) ==
    /\ item \in Editable \cap Sliders
    /\ destPar \in SliderGroupItems
    /\ destRow \in (0 - 1)..Len(items[destPar])
    /\ Bracketed("move", item, destPar, destRow, fails,
                 moveItemManager(item, destPar, destRow),
                 MoveChild(item, destPar, destRow))

\* a rig whose one Combo holds the pairs ps
InitGraphWith(ps) ==
    /\ sliderGroups = <<GroupItem(1), GroupItem(2)>>
    /\ items = [g \in Groups |->
                  CASE g = GroupItem(1) -> <<SliderItem(1), SliderItem(2)>>
                    [] g = GroupItem(2) -> <<>>
                    [] g = GroupItem(5) -> <<>>
                    [] g = ComboGroupItem -> <<ComboItem(1)>>
                    [] g = TraversalGroupItem -> <<TraversalItem(1)>>]
    /\ group = [c \in Controls |->
                  CASE c.k = "Slider" -> GroupItem(1)
                    [] c.k = "Combo" -> ComboGroupItem
                    [] c.k = "Traversal" -> TraversalGroupItem]
    /\ pairs = [c \in Combos |-> ps]
    /\ progPairs = [p \in Progressions |->
                      IF p \in {prog(ComboItem(1)), prog(SliderItem(2))}
                      THEN <<ProgPairItem(p, 1), ProgPairItem(p, 2)>>
                      ELSE <<ProgPairItem(p, 1)>>]

InitGraph ==
    InitGraphWith(<<ComboPairItem(ComboItem(1), 1), ComboPairItem(ComboItem(1), 2)>>)

NoCall == [op |-> "init", item |-> None, par |-> None, row |-> 0 - 1, fails |-> FALSE]

InitBrackets ==
    /\ call = NoCall
    /\ signals = <<>>
    /\ raised = "none"

InitTick ==
    /\ updatePairs = <<>>
    /\ calls = <<>>

\* SimplexFilterModel.__init__ and ComboFilterModel.__init__
InitFilter ==
    /\ _filterString = <<>>
    /\ _filterReg = <<>>
    /\ isolateList = <<>>
    /\ requires = <<>>
    /\ filterRequiresAll = FALSE
    /\ filterRequiresAny = FALSE
    /\ filterRequiresOnly = FALSE
    /\ filterShapes = TRUE

\* the falloffs of the rig: simplex.falloffs
FalloffItem(n) == Item("Falloff", "", 0, n)
falloffs == <<FalloffItem(1), FalloffItem(2)>>
SliderProgs == {prog(sl) : sl \in Sliders}
\* a dict without keys
EmptyDict == [k \in {} |-> <<>>]

\* FalloffModel.__init__
InitFalloffModel ==
    /\ sliders = <<>>
    /\ _checks = EmptyDict
    /\ line = <<>>
    /\ returned = "None"

InitFalloff ==
    /\ progFalloffs = [p \in SliderProgs |-> <<FalloffItem(1)>>]
    /\ InitFalloffModel

\* no coercion helper has been called
NoResult == [out |-> {}, raised |-> "none"]
InitCoerce ==
    /\ indexes = {}
    /\ coerced = NoResult

Init ==
    /\ InitGraph
    /\ InitBrackets
    /\ InitTick
    /\ InitFilter
    /\ InitFalloff
    /\ InitCoerce

Next ==
    \/ \E child \in Editable : \E par \in InsertParents(child) :
          \E row \in (0 - 1)..OwnerLen(child, par), fails \in BOOLEAN :
             Insert(child, par, row, fails)
    \/ \E item \in Editable, fails \in BOOLEAN : Remove(item, fails)
    \/ \E item \in Editable \cap Sliders, destPar \in SliderGroupItems :
          \E destRow \in (0 - 1)..Len(items[destPar]), fails \in BOOLEAN :
             Move(item, destPar, destRow, fails)

Spec == Init /\ [][Next]_vars

-----------------------------------------------------------------------------
(* Properties of the navigation and of the brackets *)

\* the children of a set of items, and the items the tree holds below its root
ChildrenOf(S) == {getChildItem(p, r) : p \in S, r \in 0..(MaxPairs + MaxShapes)} \ {None}
TreeItems ==
    LET l1 == ChildrenOf({simplex})
        l2 == ChildrenOf(l1)
        l3 == ChildrenOf(l2)
        l4 == ChildrenOf(l3)
    IN {simplex} \cup l1 \cup l2 \cup l3 \cup l4
Parents == TreeItems \cup {None}
\* the rows asked for: some below 0, some beyond every child count
Rows == (0 - 1 - MaxPairs - MaxShapes)..(MaxPairs + MaxShapes + 1)
IsBegin(s) == s.sig \in {"beginInsertRows", "beginRemoveRows", "beginMoveRows",
                         "beginResetModel"}
IsEnd(s) == s.sig \in {"endInsertRows", "endRemoveRows", "endMoveRows",
                       "endResetModel"}
EndOf(s) ==
    CASE s.sig = "beginInsertRows" -> "endInsertRows"
      [] s.sig = "beginRemoveRows" -> "endRemoveRows"
      [] s.sig = "beginMoveRows" -> "endMoveRows"
      [] s.sig = "beginResetModel" -> "endResetModel"
      [] OTHER -> "none"

\* C1: the child at every valid (parent, row) names that parent as its parent
\* and that row as its row, for every kind of parent.
C1_ChildKnowsParentAndRow ==
    \A p \in Parents : \A r \in 0..(getItemRowCount(p) - 1) :
        /\ getParentItem(getChildItem(p, r)) = p
        /\ getItemRow(getChildItem(p, r)) = <<r>>

\* C2: every item but the root that has a row is the child of its parent at
\* that row.
C2_ItemIsChildAtItsRow ==
    \A i \in AllItems \ {simplex} :
        getItemRow(i) # <<>> =>
            getChildItem(getParentItem(i), getItemRow(i)[1]) = i

\* C6: a Combo with N pairs has N + 1 children, the last one (row N) being its
\* Progression; an insert bracket on a Combo with the default row signals row
\* N, and once the pair is added the Combo has N + 2 children, the new pair at
\* row N and the Progression at row N + 1.
C6_ComboProgressionStaysLast ==
    /\ \A c \in Combos :
          /\ getItemRowCount(c) = Len(pairs[c]) + 1
          /\ getChildItem(c, Len(pairs[c])) = prog(c)
          /\ \A r \in 0..(Len(pairs[c]) - 1) : getChildItem(c, r).k = "ComboPair"
    /\ (call.op = "insert" /\ call.par.k = "Combo" /\ call.row = 0 - 1
            /\ ~call.fails) =>
          /\ Len(signals) = 3
          /\ signals[1].sig = "beginInsertRows"
          /\ signals[1].row = Len(pairs[call.par]) - 1
          /\ getChildItem(call.par, signals[1].row) = call.item
          /\ getItemRowCount(call.par) = signals[1].row + 2
          /\ getChildItem(call.par, signals[1].row + 1) = prog(call.par)

\* a pair was appended to a Combo that had one pair
C6_Witness ==
    /\ call.op = "insert" /\ call.par.k = "Combo" /\ call.row = 0 - 1
    /\ ~call.fails
    /\ Len(pairs[call.par]) = 2
    /\ signals[1].row = 1

\* C7: index(row, column, parent) is the invalid index for every row outside
\* 0 .. rowCount(parent) - 1, negative rows included.
C7_OutOfRangeRowGivesInvalidIndex ==
    \A p \in Parents : \A row \in Rows :
        LET parIndex == indexFromItem(p, 0)
        IN (row < 0 \/ row >= rowCount(parIndex)) =>
              index(row, 0, parIndex) = QModelIndex

\* the row a bracket signals for the row the caller asked for
SignalledRow(par, row) == IF row = 0 - 1 THEN getItemAppendRow(par) ELSE row

\* C4: a begin signal is the first thing its bracket emits, the body runs
\* next and the matching end signal comes last; the parent index and the row
\* the begin signal carries are those of the graph before the body ran (for a
\* removal: where the item then was).
C4_BeginCarriesPreMutationState ==
    [][\A i \in 1..Len(signals') :
          IsBegin(signals'[i]) =>
             /\ i = 1
             /\ Len(signals') = 3
             /\ signals'[2] = Yield
             /\ signals'[3].sig = EndOf(signals'[1])
             /\ call'.op = "remove" =>
                   /\ signals'[1].sig = "beginRemoveRows"
                   /\ <<signals'[1].row>> = getItemRow(call'.item)
                   /\ signals'[1].par = parent(indexFromItem(call'.item, 0))
                   /\ getChildItem(getParentItem(call'.item), signals'[1].row)
                         = call'.item
             /\ call'.op = "insert" =>
                   /\ signals'[1].sig = "beginInsertRows"
                   /\ signals'[1].par = indexFromItem(call'.par, 0)
                   /\ signals'[1].row = SignalledRow(call'.par, call'.row)
             /\ call'.op = "move" =>
                   /\ signals'[1].sig = "beginMoveRows"
                   /\ <<signals'[1].row>> = getItemRow(call'.item)
                   /\ signals'[1].par = parent(indexFromItem(call'.item, 0))
                   /\ signals'[1].dpar = indexFromItem(call'.par, 0)
                   /\ signals'[1].drow = SignalledRow(call'.par, call'.row)
      ]_vars

\* a removal of an item that was at row 1 was signalled and carried out
C4_Witness ==
    /\ call.op = "remove" /\ ~call.fails
    /\ Len(signals) = 3
    /\ signals[1].sig = "beginRemoveRows" /\ signals[1].row = 1
    /\ ~InList(call.item)

\* C5: an insert bracket signals begin and end exactly when the parent's
\* index is valid, a move bracket exactly when the item's and the destination
\* parent's indices both are; otherwise nothing is signalled; in either case
\* the body runs.
C5_SignalsIffIndicesValid ==
    [][/\ call'.op = "insert" =>
             LET v == isValid(indexFromItem(call'.par, 0))
             IN /\ signals' = IF v THEN <<signals'[1], Yield, endInsertRows>>
                                   ELSE <<Yield>>
                /\ v => signals'[1].sig = "beginInsertRows"
       /\ call'.op = "move" =>
             LET v == /\ isValid(indexFromItem(call'.item, 0))
                      /\ isValid(indexFromItem(call'.par, 0))
             IN /\ signals' = IF v THEN <<signals'[1], Yield, endMoveRows>>
                                   ELSE <<Yield>>
                /\ v => signals'[1].sig = "beginMoveRows"
       /\ (call'.op \in {"insert", "move"} /\ ~call'.fails) =>
             \E it \in AllItems : it = call'.item /\ InList(it)'
      ]_vars

\* an insertion under a parent without a valid index ran without any signal
C5_Witness ==
    /\ call.op = "insert" /\ ~call.fails
    /\ signals = <<Yield>>
    /\ InList(call.item)
    /\ ~isValid(indexFromItem(call.par, 0))

-----------------------------------------------------------------------------
(* SimplexModel.updateTickValues *)

\* a call of one of the simplex's batch setters
DomainCall(fn, its, values) == [fn |-> fn, items |-> its, values |-> values]
\* zip(*list)[0] and zip(*list)[1]
Firsts(list) == [i \in 1..Len(list) |-> list[i][1]]
Seconds(list) == [i \in 1..Len(list) |-> list[i][2]]

\* the three lists the loop over updatePairs fills
RECURSIVE SortByKind(_, _)
SortByKind(batch, acc) ==
    IF batch = <<>> THEN acc
    ELSE LET i == Head(batch)
         IN SortByKind(Tail(batch),
               IF i[1].k = "Slider"
               THEN [acc EXCEPT !.sliderList = Append(@, i)]
               ELSE IF i[1].k = "ProgPair"
               THEN [acc EXCEPT !.progs = Append(@, i)]
               ELSE IF i[1].k = "ComboPair"
               THEN [acc EXCEPT !.comboList = Append(@, i)]
               ELSE acc)

\* updateTickValues calling a setter once for every pair
updateTickValues_PerPair(batch) ==
    LET l == SortByKind(batch, [sliderList |-> <<>>, progs |-> <<>>, comboList |-> <<>>])
    IN [i \in 1..Len(l.progs) |->
            DomainCall("setShapesValues", <<l.progs[i][1]>>, <<l.progs[i][2]>>)]
        \o [i \in 1..Len(l.sliderList) |->
            DomainCall("setSlidersWeights", <<l.sliderList[i][1]>>, <<l.sliderList[i][2]>>)]
        \o [i \in 1..Len(l.comboList) |->
            DomainCall("setCombosValues", <<l.comboList[i][1]>>, <<l.comboList[i][2]>>)]

\* the calls updateTickValues(batch) makes, in the order it makes them
updateTickValues(batch) ==
    LET l == SortByKind(batch, [sliderList |-> <<>>, progs |-> <<>>, comboList |-> <<>>])
    IN (IF l.progs # <<>>
        THEN <<DomainCall("setShapesValues", Firsts(l.progs), Seconds(l.progs))>>
        ELSE <<>>)
        \o (IF l.sliderList # <<>>
            THEN <<DomainCall("setSlidersWeights", Firsts(l.sliderList),
                              Seconds(l.sliderList))>>
            ELSE <<>>)
        \o (IF l.comboList # <<>>
            THEN <<DomainCall("setCombosValues", Firsts(l.comboList),
                              Seconds(l.comboList))>>
            ELSE <<>>)

\* the items a batch may name, and the values it may give them
TickItems ==
    {SliderItem(1), SliderItem(2), ProgPairItem(prog(SliderItem(1)), 1),
     ComboPairItem(ComboItem(1), 1), progressCtrl(TraversalItem(1))}
TickValues == {0, 1}
RECURSIVE Batches(_)
Batches(n) ==
    IF n = 0 THEN {<<>>}
    ELSE Batches(n - 1)
            \cup {Append(b, <<i, v>>) : b \in {x \in Batches(n - 1) : Len(x) = n - 1},
                  i \in TickItems, v \in TickValues}

TickCall == [NoCall EXCEPT !.op = "updateTickValues"]

\* model.updateTickValues(updatePairs)
UpdateTickValues ==
    /\ call = NoCall
    /\ call' = TickCall
    /\ calls' = updateTickValues(updatePairs)
    /\ UNCHANGED <<graphVars, signals, raised, updatePairs, filterVars, falloffVars,
                   coerceVars>>

\* every batch of up to MaxBatch pairs is handed to updateTickValues
InitTickBatch ==
    /\ InitGraph
    /\ InitBrackets
    /\ updatePairs \in Batches(MaxBatch)
    /\ calls = <<>>
    /\ InitFilter
    /\ InitFalloff
    /\ InitCoerce

NextTick == UpdateTickValues

SpecTick == InitTickBatch /\ [][NextTick]_vars

\* the positions of a batch that hold an item of a kind, and the n-th of them
KindPositions(batch, kind) == {p \in 1..Len(batch) : batch[p][1].k = kind}
NthPosition(batch, kind, n) ==
    CHOOSE p \in KindPositions(batch, kind) :
        Cardinality({q \in KindPositions(batch, kind) : q < p}) = n - 1
SetterOf(kind) ==
    CASE kind = "Slider" -> "setSlidersWeights"
      [] kind = "ProgPair" -> "setShapesValues"
      [] kind = "ComboPair" -> "setCombosValues"

\* C10: a batch makes one call of a kind's setter if it holds a pair of that
\* kind and none otherwise, hence at most 3 calls; the call gets the batch's
\* items of the kind and their values, in the batch's order.
C10_OneSetterCallPerKind ==
    call = TickCall =>
    /\ Len(calls) <= 3
    /\ \A c \in Elems(calls) :
          c.fn \in {"setSlidersWeights", "setShapesValues", "setCombosValues"}
    /\ \A kind \in {"Slider", "ProgPair", "ComboPair"} :
          LET made == {i \in 1..Len(calls) : calls[i].fn = SetterOf(kind)}
              pos == KindPositions(updatePairs, kind)
          IN /\ Cardinality(made) = IF pos = {} THEN 0 ELSE 1
             /\ \A i \in made :
                   /\ Len(calls[i].items) = Cardinality(pos)
                   /\ Len(calls[i].values) = Cardinality(pos)
                   /\ \A n \in 1..Cardinality(pos) :
                         /\ calls[i].items[n]
                               = updatePairs[NthPosition(updatePairs, kind, n)][1]
                         /\ calls[i].values[n]
                               = updatePairs[NthPosition(updatePairs, kind, n)][2]

\* a batch of two slider pairs around a shape pair made two calls
C10_Witness ==
    /\ call = TickCall
    /\ Len(updatePairs) = 3
    /\ updatePairs[1][1] = SliderItem(2) /\ updatePairs[2][1].k = "ProgPair"
    /\ updatePairs[3][1] = SliderItem(1)
    /\ updatePairs[1][2] # updatePairs[3][2]
    /\ Len(calls) = 2

-----------------------------------------------------------------------------
(* The filter models: SimplexFilterModel and ComboFilterModel *)

\* Strings are sequences of characters.
Letter(n) == <<"a", "b", "c", "d", "e">>[n]

\* item.name
name(item) ==
    CASE item.k = "Simplex" -> <<"F">>
      [] item.k = "Group" -> <<"G", Letter(item.n)>>
      [] item.k = "Slider" -> <<"S", Letter(item.n)>>
      [] item.k = "Combo" -> <<"C", Letter(item.n)>>
      [] item.k = "Traversal" -> <<"T", Letter(item.n)>>
      [] item.k = "ComboPair" -> <<"S", Letter(item.n)>>
      [] item.k = "Progression" -> <<"P">>
      [] item.k = "ProgPair" -> <<"x", Letter(item.n)>>
      [] item.k = "Falloff" -> <<"F", Letter(item.n)>>
      [] OTHER -> <<>>

\* ComboPair.slider
slider(cp) == SliderItem(cp.n)
\* ProgPair.shape.isRest
isRest(pp) == pp.n = 1

\* str.lower() of one character
Lower(ch) ==
    CASE ch = "S" -> "s" [] ch = "C" -> "c" [] ch = "X" -> "x"
      [] ch = "B" -> "b" [] ch = "P" -> "p" [] OTHER -> ch

\* val.split(): the maximal runs of non-blank characters
RECURSIVE split(_, _, _)
split(val, word, acc) ==
    IF val = <<>> THEN (IF word = <<>> THEN acc ELSE Append(acc, word))
    ELSE IF Head(val) = " "
    THEN split(Tail(val), <<>>, IF word = <<>> THEN acc ELSE Append(acc, word))
    ELSE split(Tail(val), Append(word, Head(val)), acc)

\* re.compile('.*?'.join(sp), flags=re.I), for a token sp made of letters:
\* the letters of sp, in order, with anything between them, case ignored
compile(sp) == [letters |-> sp, ignorecase |-> TRUE]

\* reg.search(string) for such a pattern, leftmost letter first
RECURSIVE search(_, _)
search(reg, string) ==
    IF reg.letters = <<>> THEN TRUE
    ELSE IF string = <<>> THEN FALSE
    ELSE IF (IF reg.ignorecase
             THEN Lower(Head(reg.letters)) = Lower(Head(string))
             ELSE Head(reg.letters) = Head(string))
    THEN search([reg EXCEPT !.letters = Tail(@)], Tail(string))
    ELSE search(reg, Tail(string))

\* the filterString property: ' '.join(self._filterString) is non-empty
filterStringSet == _filterString # <<>>

matchFilterString(itemString) ==
    IF _filterString = <<>> THEN TRUE
    ELSE \E i \in 1..Len(_filterReg) : search(_filterReg[i], itemString)

\* matchIsolation taking every name for isolated
matchIsolation_AlwaysTrue(itemString) == TRUE

matchIsolation(itemString) ==
    IF isolateList # <<>> THEN itemString \in Elems(isolateList) ELSE TRUE

\* the child the loop of checkChildren returns on: the first that is not None
FirstChild(item) ==
    LET rows == {r \in 0..(getItemRowCount(item) - 1) : getChildItem(item, r) # None}
    IN IF rows = {} THEN None
       ELSE getChildItem(item, CHOOSE r \in rows : \A q \in rows : r <= q)

\* checkChildren looking at every child instead of the first one
RECURSIVE checkChildren_AnyChild(_)
checkChildren_AnyChild(sourceItem) ==
    IF matchFilterString(name(sourceItem)) /\ matchIsolation(name(sourceItem))
    THEN TRUE
    ELSE \E r \in 0..(getItemRowCount(sourceItem) - 1) :
            /\ getChildItem(sourceItem, r) # None
            /\ checkChildren_AnyChild(getChildItem(sourceItem, r))

RECURSIVE checkChildren(_)
checkChildren(sourceItem) ==
    IF matchFilterString(name(sourceItem)) /\ matchIsolation(name(sourceItem))
    THEN TRUE
    ELSE IF FirstChild(sourceItem) # None THEN checkChildren(FirstChild(sourceItem))
    ELSE FALSE

\* QSortFilterProxyModel.filterAcceptsRow: no filterRegExp is ever set
QSortFilterProxyModel_filterAcceptsRow == TRUE

SimplexFilterModel_filterAcceptsRow(sourceRow, sourceParent) ==
    LET sourceIndex == index(sourceRow, 0, sourceParent)
        sourceItem == internalPointer(sourceIndex)
    IN IF /\ isValid(sourceIndex)
          /\ (filterStringSet \/ isolateList # <<>>)
          /\ sourceItem.k \in {"ProgPair", "Slider", "Combo", "ComboPair", "Progression"}
          /\ ~checkChildren(sourceItem)
       THEN FALSE
       ELSE QSortFilterProxyModel_filterAcceptsRow

\* the dependency test of ComboFilterModel with ANY looked at before ALL
DependencyRejects_AnyFirst(data) ==
    LET sl == {slider(pairs[data][i]) : i \in 1..Len(pairs[data])}
        req == Elems(requires)
    IN IF filterRequiresAny THEN ~(\E r \in req : r \in sl)
       ELSE IF filterRequiresAll THEN ~(\A r \in req : r \in sl)
       ELSE IF filterRequiresOnly THEN ~(\A x \in sl : x \in req)
       ELSE FALSE

\* the if / elif chain on the three flags in ComboFilterModel.filterAcceptsRow
DependencyRejects(data) ==
    LET sl == {slider(pairs[data][i]) : i \in 1..Len(pairs[data])}
        req == Elems(requires)
    IN IF filterRequiresAll THEN ~(\A r \in req : r \in sl)
       ELSE IF filterRequiresAny THEN ~(\E r \in req : r \in sl)
       ELSE IF filterRequiresOnly THEN ~(\A x \in sl : x \in req)
       ELSE FALSE

ComboFilterModel_filterAcceptsRow(sourceRow, sourceParent) ==
    LET sourceIndex == index(sourceRow, 0, sourceParent)
        data == internalPointer(sourceIndex)
    IN IF ~isValid(sourceIndex)
       THEN SimplexFilterModel_filterAcceptsRow(sourceRow, sourceParent)
       ELSE IF /\ filterShapes
               /\ \/ data.k = "Progression" /\ Len(progPairs[data]) <= 2
                  \/ data.k = "ProgPair" /\ Len(progPairs[pairProg(data)]) <= 2
                  \/ data.k = "ProgPair" /\ isRest(data)
       THEN FALSE
       ELSE IF /\ filterRequiresAny \/ filterRequiresAll \/ filterRequiresOnly
               /\ requires # <<>>
               /\ data.k = "Combo"
               /\ DependencyRejects(data)
       THEN FALSE
       ELSE SimplexFilterModel_filterAcceptsRow(sourceRow, sourceParent)

\* the strings the filter line is set to, the isolate lists and the required
\* controls
FilterInputs ==
    {<<>>, <<" ">>, <<"s">>, <<"x", "b">>, <<"b", "x">>, <<"s", " ", "b", "x">>,
     <<" ", "X", "b", " ", " ", "c">>}
IsolateInputs ==
    {<<>>, <<<<"x", "a">>>>, <<<<"S", "a">>>>, <<<<"x", "a">>, <<"x", "b">>>>}
RequiresInputs ==
    {<<>>, <<SliderItem(1)>>, <<SliderItem(2)>>, <<SliderItem(1), SliderItem(2)>>}

\* filterModel.filterString = val
SetFilterString(val) ==
    /\ _filterString' = split(val, <<>>, <<>>)
    /\ _filterReg' = [i \in 1..Len(split(val, <<>>, <<>>)) |->
                        compile(split(val, <<>>, <<>>)[i])]
    /\ UNCHANGED <<isolateList, requires, filterRequiresAll, filterRequiresAny,
                   filterRequiresOnly, filterShapes>>
    /\ UNCHANGED <<graphVars, bracketVars, tickVars, falloffVars, coerceVars>>

\* filterModel.isolateList = names
SetIsolateList(names) ==
    /\ isolateList' = names
    /\ UNCHANGED <<_filterString, _filterReg, requires, filterRequiresAll,
                   filterRequiresAny, filterRequiresOnly, filterShapes>>
    /\ UNCHANGED <<graphVars, bracketVars, tickVars, falloffVars, coerceVars>>

\* filterModel.requires = sliders
SetRequires(req) ==
    /\ requires' = req
    /\ UNCHANGED <<_filterString, _filterReg, isolateList, filterRequiresAll,
                   filterRequiresAny, filterRequiresOnly, filterShapes>>
    /\ UNCHANGED <<graphVars, bracketVars, tickVars, falloffVars, coerceVars>>

\* filterModel.filterRequiresAll / Any / Only / filterShapes = flag
SetFilterRequiresAll(flag) ==
    /\ filterRequiresAll' = flag
    /\ UNCHANGED <<_filterString, _filterReg, isolateList, requires,
                   filterRequiresAny, filterRequiresOnly, filterShapes>>
    /\ UNCHANGED <<graphVars, bracketVars, tickVars, falloffVars, coerceVars>>

SetFilterRequiresAny(flag) ==
    /\ filterRequiresAny' = flag
    /\ UNCHANGED <<_filterString, _filterReg, isolateList, requires,
                   filterRequiresAll, filterRequiresOnly, filterShapes>>
    /\ UNCHANGED <<graphVars, bracketVars, tickVars, falloffVars, coerceVars>>

SetFilterRequiresOnly(flag) ==
    /\ filterRequiresOnly' = flag
    /\ UNCHANGED <<_filterString, _filterReg, isolateList, requires,
                   filterRequiresAll, filterRequiresAny, filterShapes>>
    /\ UNCHANGED <<graphVars, bracketVars, tickVars, falloffVars, coerceVars>>

SetFilterShapes(flag) ==
    /\ filterShapes' = flag
    /\ UNCHANGED <<_filterString, _filterReg, isolateList, requires,
                   filterRequiresAll, filterRequiresAny, filterRequiresOnly>>
    /\ UNCHANGED <<graphVars, bracketVars, tickVars, falloffVars, coerceVars>>

\* the rig the filters look at: the Combo refers to any of the Sliders
InitFilterGraph ==
    \E ps \in {<<>>, <<ComboPairItem(ComboItem(1), 1)>>,
               <<ComboPairItem(ComboItem(1), 2)>>,
               <<ComboPairItem(ComboItem(1), 1), ComboPairItem(ComboItem(1), 2)>>} :
       InitGraphWith(ps)

InitFilterModels ==
    /\ InitFilterGraph
    /\ InitBrackets
    /\ InitTick
    /\ InitFilter
    /\ InitFalloff
    /\ InitCoerce

NextFilter ==
    \/ \E val \in FilterInputs : SetFilterString(val)
    \/ \E names \in IsolateInputs : SetIsolateList(names)
    \/ \E req \in RequiresInputs : SetRequires(req)
    \/ \E flag \in BOOLEAN : SetFilterRequiresAll(flag)
    \/ \E flag \in BOOLEAN : SetFilterRequiresAny(flag)
    \/ \E flag \in BOOLEAN : SetFilterRequiresOnly(flag)
    \/ \E flag \in BOOLEAN : SetFilterShapes(flag)

SpecFilter == InitFilterModels /\ [][NextFilter]_vars

-----------------------------------------------------------------------------
(* Properties of the filter models *)

\* the rows of the tree: a parent item and a row below it
TreeRows == {pr \in Parents \X (0..(MaxPairs + MaxShapes)) : pr[2] < getItemRowCount(pr[1])}
RowItem(pr) == getChildItem(pr[1], pr[2])
ComboAccepts(pr) == ComboFilterModel_filterAcceptsRow(pr[2], indexFromItem(pr[1], 0))
SimplexAccepts(pr) == SimplexFilterModel_filterAcceptsRow(pr[2], indexFromItem(pr[1], 0))

\* a Combo passes the dependency mode: ANY, ALL or ONLY of the required controls
PassesMode(mode, combo) ==
    LET sl == {slider(cp) : cp \in Elems(pairs[combo])}
    IN CASE mode = "ANY" -> sl \cap Elems(requires) # {}
         [] mode = "ALL" -> Elems(requires) \subseteq sl
         [] mode = "ONLY" -> sl \subseteq Elems(requires)

\* with the flags looked at in the order first, second, third, a Combo row is
\* kept exactly if it passes the first mode whose flag is set (and the name
\* filter keeps it)
ModeByPriority(first, second, third) ==
    LET flag(m) == CASE m = "ANY" -> filterRequiresAny
                     [] m = "ALL" -> filterRequiresAll
                     [] m = "ONLY" -> filterRequiresOnly
        mode == IF flag(first) THEN first ELSE IF flag(second) THEN second ELSE third
    IN \A pr \in TreeRows :
          (/\ RowItem(pr).k = "Combo"
           /\ requires # <<>>
           /\ filterRequiresAny \/ filterRequiresAll \/ filterRequiresOnly) =>
              (ComboAccepts(pr) <=> (PassesMode(mode, RowItem(pr)) /\ SimplexAccepts(pr)))

\* C8 as stated: of the dependency flags that are set, ANY decides before ALL
\* and ALL before ONLY.
C8_AnyOverridesAllOverridesOnly == ModeByPriority("ANY", "ALL", "ONLY")

\* C8 as the code has it: of the dependency flags that are set, ALL decides
\* before ANY and ANY before ONLY; with ANY and ALL both set a Combo that
\* refers to some but not all required controls is dropped.
C8_AllOverridesAnyOverridesOnly == ModeByPriority("ALL", "ANY", "ONLY")

\* ANY and ALL are both set and the Combo, which refers to one of the two
\* required Sliders, is dropped
C8_Witness ==
    /\ filterRequiresAll /\ filterRequiresAny
    /\ requires = <<SliderItem(1), SliderItem(2)>>
    /\ pairs[ComboItem(1)] = <<ComboPairItem(ComboItem(1), 2)>>
    /\ _filterString = <<>> /\ isolateList = <<>>
    /\ ~ComboAccepts(<<ComboGroupItem, 0>>)

\* the letters of token occur in nm in their order, case ignored
OccursIn(token, nm) ==
    \E f \in [1..Len(token) -> 1..Len(nm)] :
        /\ \A i \in 1..Len(token) : Lower(token[i]) = Lower(nm[f[i]])
        /\ \A i \in 1..Len(token) : \A j \in 1..Len(token) : i < j => f[i] < f[j]
MatchesSomeToken(nm) == \E t \in Elems(_filterString) : OccursIn(t, nm)
FilteredKinds == {"ProgPair", "Slider", "Combo", "ComboPair", "Progression"}
LeafKinds == {"ProgPair", "ComboPair"}

\* C9 as stated: with a filter string and an isolate list both set, a name
\* that matches a token or is in the isolate list is accepted.
C9_TokenOrIsolateAccepts ==
    \A pr \in TreeRows :
        (/\ RowItem(pr).k \in FilteredKinds
         /\ _filterString # <<>> /\ isolateList # <<>>
         /\ \/ MatchesSomeToken(name(RowItem(pr)))
            \/ name(RowItem(pr)) \in Elems(isolateList)) => SimplexAccepts(pr)

\* C9 as the code has it: a name is accepted if it matches some token (or no
\* filter string is set) and is in the isolate list (or the list is empty);
\* a row without children is accepted only then; with both empty every row
\* passes.
C9_TokenAndIsolateAccept ==
    \A pr \in TreeRows :
        LET nm == name(RowItem(pr))
            nameOk == /\ _filterString = <<>> \/ MatchesSomeToken(nm)
                      /\ isolateList = <<>> \/ nm \in Elems(isolateList)
        IN /\ (_filterString = <<>> /\ isolateList = <<>>) => SimplexAccepts(pr)
           /\ (RowItem(pr).k \in FilteredKinds /\ nameOk) => SimplexAccepts(pr)
           /\ RowItem(pr).k \in LeafKinds => (SimplexAccepts(pr) <=> nameOk)

\* a shape whose name is in the isolate list but matches no token is rejected
C9_Witness ==
    /\ _filterString # <<>> /\ isolateList # <<>>
    /\ \E pr \in TreeRows :
          /\ RowItem(pr).k = "ProgPair"
          /\ name(RowItem(pr)) \in Elems(isolateList)
          /\ ~MatchesSomeToken(name(RowItem(pr)))
          /\ ~SimplexAccepts(pr)

-----------------------------------------------------------------------------
(* FalloffModel: the selection, the subscriber map and the display line *)

\* Qt.CheckState and the item data roles
Checked == "Checked"
Unchecked == "Unchecked"
PartiallyChecked == "PartiallyChecked"
CheckStateRole == "CheckStateRole"
EditRole == "EditRole"

\* item.prog is there (it is not on a Group: AttributeError)
hasProg(item) == item.k \in {"Slider", "Combo", "Traversal"}

\* Progression.addFalloff(fo) and Progression.removeFalloff(fo)
addFalloff(pf, p, fo) == [pf EXCEPT ![p] = Append(@, fo)]
removeFalloff(pf, p, fo) == [pf EXCEPT ![p] = PyRemove(@, fo)]

\* d.setdefault(k, []).append(v)
setdefault_append(d, k, v) ==
    [x \in DOMAIN d \cup {k} |->
        IF x # k THEN d[x] ELSE IF k \in DOMAIN d THEN Append(d[k], v) ELSE <<v>>]

\* for fo in slider.prog.falloffs: self._checks.setdefault(fo, []).append(slider)
RECURSIVE subscribe(_, _, _, _)
subscribe(d, fos, i, sl) ==
    IF i > Len(fos) THEN d
    ELSE subscribe(setdefault_append(d, fos[i], sl), fos, i + 1, sl)

\* the loop of setSliders over the selection, up to the item it raises on
RECURSIVE buildChecks(_, _, _)
buildChecks(sel, i, d) ==
    IF i > Len(sel) THEN [checks |-> d, raised |-> "none"]
    ELSE IF ~hasProg(sel[i]) THEN [checks |-> d, raised |-> "AttributeError"]
    ELSE buildChecks(sel, i + 1, subscribe(d, progFalloffs[prog(sel[i])], 1, sel[i]))

_getCheckState(d, sel, fo) ==
    LET sli == IF fo \in DOMAIN d THEN d[fo] ELSE <<>>
    IN IF Len(sli) = Len(sel) THEN Checked
       ELSE IF Len(sli) = 0 THEN Unchecked
       ELSE PartiallyChecked

\* ",".join(names)
RECURSIVE join(_)
join(names) ==
    IF names = <<>> THEN <<>>
    ELSE IF Len(names) = 1 THEN names[1]
    ELSE names[1] \o <<",">> \o join(Tail(names))

\* the value buildLine leaves in self.line
buildLine(d, sel) ==
    IF sel = <<>> THEN <<>>
    ELSE LET isFull(fo) == _getCheckState(d, sel, fo) = Checked
             isPartial(fo) == _getCheckState(d, sel, fo) = PartiallyChecked
             names(fos) == [i \in 1..Len(fos) |-> name(fos[i])]
             fulls == names(SelectSeq(falloffs, isFull))
             partials == names(SelectSeq(falloffs, isPartial))
         IN IF partials # <<>>
            THEN join(fulls) \o <<" ", "<", "<">> \o join(partials) \o <<">", ">">>
            ELSE join(fulls)

FalloffModel_index(row, column) ==
    IF row <= 0 THEN createIndex(row, column, None)
    ELSE IF row - 1 < Len(falloffs) THEN createIndex(row, column, falloffs[row])
    ELSE QModelIndex

FalloffModel_data(idx, role) ==
    IF ~isValid(idx) THEN <<>>
    ELSE IF internalPointer(idx) = None THEN <<>>
    ELSE IF role = EditRole THEN <<name(internalPointer(idx))>>
    ELSE IF role = CheckStateRole
         THEN <<_getCheckState(_checks, sliders, internalPointer(idx))>>
    ELSE <<>>

dataChanged(topLeft, bottomRight) ==
    Sig("dataChanged", topLeft, topLeft.row, bottomRight, bottomRight.row)

\* FalloffModel.setSliders(sel)
SetSliders(sel) ==
    LET r == buildChecks(sel, 1, EmptyDict)
        ok == r.raised = "none"
    IN /\ call' = [op |-> "setSliders", item |-> None, par |-> None,
                   row |-> 0 - 1, fails |-> ~ok]
       /\ signals' = <<beginResetModel>> \o (IF ok THEN <<endResetModel>> ELSE <<>>)
       /\ raised' = r.raised
       /\ sliders' = sel
       /\ _checks' = r.checks
       /\ line' = IF ok THEN buildLine(r.checks, sel) ELSE line
       /\ returned' = "None"
       /\ UNCHANGED <<graphVars, tickVars, filterVars, progFalloffs, coerceVars>>

\* the loop for Qt.Checked adding the falloff to every selected slider
RECURSIVE checkAll_AddsToAll(_, _, _, _)
checkAll_AddsToAll(fo, i, pf, d) ==
    IF i > Len(sliders) THEN [pf |-> pf, checks |-> d, raised |-> "none"]
    ELSE IF ~hasProg(sliders[i]) THEN [pf |-> pf, checks |-> d, raised |-> "AttributeError"]
    ELSE checkAll_AddsToAll(fo, i + 1, addFalloff(pf, prog(sliders[i]), fo),
                            setdefault_append(d, fo, sliders[i]))

\* the loop of setData for value == Qt.Checked
RECURSIVE checkAll(_, _, _, _)
checkAll(fo, i, pf, d) ==
    IF i > Len(sliders) THEN [pf |-> pf, checks |-> d, raised |-> "none"]
    ELSE IF ~hasProg(sliders[i]) THEN [pf |-> pf, checks |-> d, raised |-> "AttributeError"]
    ELSE IF fo \notin Elems(pf[prog(sliders[i])])
         THEN checkAll(fo, i + 1, addFalloff(pf, prog(sliders[i]), fo),
                       setdefault_append(d, fo, sliders[i]))
    ELSE checkAll(fo, i + 1, pf, d)

\* the loop of setData for value == Qt.Unchecked
RECURSIVE uncheckAll(_, _, _, _)
uncheckAll(fo, i, pf, d) ==
    IF i > Len(sliders) THEN [pf |-> pf, checks |-> d, raised |-> "none"]
    ELSE IF ~hasProg(sliders[i]) THEN [pf |-> pf, checks |-> d, raised |-> "AttributeError"]
    ELSE IF fo \in Elems(pf[prog(sliders[i])])
         THEN LET gone == removeFalloff(pf, prog(sliders[i]), fo)
              IN IF fo \notin DOMAIN d
                 THEN [pf |-> gone, checks |-> d, raised |-> "KeyError"]
                 ELSE IF sliders[i] \in Elems(d[fo])
                 THEN uncheckAll(fo, i + 1, gone, [d EXCEPT ![fo] = PyRemove(@, sliders[i])])
                 ELSE uncheckAll(fo, i + 1, gone, d)
    ELSE uncheckAll(fo, i + 1, pf, d)

\* FalloffModel.setData(idx, value, role)
SetData(idx, value, role) ==
    LET fo == internalPointer(idx)
        r == CASE value = Checked -> checkAll(fo, 1, progFalloffs, _checks)
               [] value = Unchecked -> uncheckAll(fo, 1, progFalloffs, _checks)
               [] OTHER -> [pf |-> progFalloffs, checks |-> _checks, raised |-> "none"]
        toggles == role = CheckStateRole /\ fo # None
        ok == r.raised = "none"
    IN /\ call' = [op |-> "setData", item |-> fo, par |-> None,
                   row |-> idx.row, fails |-> toggles /\ ~ok]
       /\ raised' = IF toggles THEN r.raised ELSE "none"
       /\ progFalloffs' = IF toggles THEN r.pf ELSE progFalloffs
       /\ _checks' = IF toggles THEN r.checks ELSE _checks
       /\ line' = IF toggles /\ ok THEN buildLine(r.checks, sliders) ELSE line
       /\ signals' = IF toggles /\ ok THEN <<dataChanged(idx, idx)>> ELSE <<>>
       /\ returned' = IF role # CheckStateRole THEN "False"
                      ELSE IF toggles /\ ok THEN "True" ELSE "None"
       /\ UNCHANGED <<graphVars, tickVars, filterVars, sliders, coerceVars>>

\* with model.resetModelManager(): <the caller rebuilds what the model shows>
Reset(fails) ==
    /\ fails \in BOOLEAN
    /\ Bracketed("reset", None, None, 0 - 1, fails, resetModelManager, Graph)

\* the selections a view hands to setSliders: distinct Sliders, or a Group
\* picked along with them
Selections(n) ==
    {sel \in UNION {[1..k -> Sliders \cup {GroupItem(1)}] : k \in 0..n} :
        \A i \in 1..Len(sel) : \A j \in 1..Len(sel) : sel[i] = sel[j] => i = j}
FalloffIndexes == {FalloffModel_index(row, 0) : row \in 0..(Len(falloffs) + 1)}

InitFalloffRig ==
    /\ progFalloffs \in [SliderProgs -> {<<>>, <<FalloffItem(1)>>,
                                         <<FalloffItem(1), FalloffItem(2)>>}]
    /\ InitFalloffModel

InitFalloffModels ==
    /\ InitGraph
    /\ InitBrackets
    /\ InitTick
    /\ InitFilter
    /\ InitFalloffRig
    /\ InitCoerce

NextFalloff ==
    \/ \E sel \in Selections(MaxSel) : SetSliders(sel)
    \/ \E idx \in FalloffIndexes :
          \E value \in {Checked, Unchecked, PartiallyChecked} :
             \E role \in {CheckStateRole, EditRole} : SetData(idx, value, role)
    \/ \E fails \in BOOLEAN : Reset(fails)

SpecFalloff == InitFalloffModels /\ [][NextFalloff]_vars

\* C3: in what a handler emits, every begin signal is followed by exactly one
\* matching end signal, no end signal comes without a begin signal before it,
\* also when the handler's body raises, and the error reaches the caller.
C3_EveryBeginHasItsEnd ==
    /\ \A i \in DOMAIN signals :
          IsBegin(signals[i]) =>
             Cardinality({j \in DOMAIN signals :
                             j > i /\ signals[j].sig = EndOf(signals[i])}) = 1
    /\ \A j \in DOMAIN signals :
          IsEnd(signals[j]) =>
             \E i \in 1..(j - 1) :
                IsBegin(signals[i]) /\ EndOf(signals[i]) = signals[j].sig
    /\ call.fails => raised # "none"

-----------------------------------------------------------------------------
(* Properties of the FalloffModel *)

\* the positions of the selection whose slider's progression refers to fo
Referring(pf, fo) ==
    {i \in 1..Len(sliders) : hasProg(sliders[i]) /\ fo \in Elems(pf[prog(sliders[i])])}
\* the selection holds Sliders only, each once
ProperSelection ==
    /\ \A i \in 1..Len(sliders) : sliders[i] \in Sliders
    /\ \A i \in 1..Len(sliders) : \A j \in 1..Len(sliders) : sliders[i] = sliders[j] => i = j

\* C11: after setSliders calls and checkbox toggles that went through, the
\* check state reported for a falloff is Unchecked if no selected slider's
\* progression refers to it (so for every falloff when nothing is selected),
\* Checked if every selected slider's does, PartiallyChecked otherwise.
C11_CheckStateReflectsMembership ==
    (ProperSelection /\ raised = "none") =>
        \A row \in 1..Len(falloffs) :
            LET idx == FalloffModel_index(row, 0)
                n == Cardinality(Referring(progFalloffs, internalPointer(idx)))
            IN FalloffModel_data(idx, CheckStateRole) =
                  <<IF n = 0 THEN Unchecked
                    ELSE IF n = Len(sliders) THEN Checked
                    ELSE PartiallyChecked>>

\* what a toggle of the falloff at idx to value has to leave behind
ToggleEffect(idx, value) ==
    LET fo == internalPointer(idx)
        selected(p) == controller(p) \in Elems(sliders)
        has(p) == fo \in Elems(progFalloffs[p])
        without(list) == SelectSeq(list, LAMBDA x : x # fo)
    IN /\ \A p \in SliderProgs :
             progFalloffs'[p] =
                IF value = Checked /\ selected(p) /\ ~has(p)
                THEN Append(progFalloffs[p], fo)
                ELSE IF value = Unchecked /\ selected(p) /\ has(p)
                THEN without(progFalloffs[p])
                ELSE progFalloffs[p]
       /\ sliders' = sliders
       /\ signals' = <<dataChanged(idx, idx)>>
       /\ line' = buildLine(_checks', sliders')

\* C12: a toggle that goes through adds the falloff to exactly the selected
\* sliders' progressions that lack it (once each), or removes it from exactly
\* those that have it; every other progression and every other falloff stays
\* as it was, and one dataChanged for the one cell is emitted, the line being
\* rebuilt from the new state.
C12_ToggleTouchesExactlyTheSelected ==
    [][\A idx \in FalloffIndexes : \A value \in {Checked, Unchecked} :
          (/\ SetData(idx, value, CheckStateRole)
           /\ internalPointer(idx) # None
           /\ raised' = "none") => ToggleEffect(idx, value)]_vars

\* both Sliders are selected and the second falloff was checked: Slider 2,
\* which had it, kept its list and Slider 1 got it appended
C12_Witness ==
    /\ call.op = "setData" /\ call.item = FalloffItem(2)
    /\ returned = "True"
    /\ sliders = <<SliderItem(1), SliderItem(2)>>
    /\ progFalloffs[prog(SliderItem(1))] = <<FalloffItem(1), FalloffItem(2)>>
    /\ progFalloffs[prog(SliderItem(2))] = <<FalloffItem(2)>>
    /\ _checks[FalloffItem(2)] = <<SliderItem(2), SliderItem(1)>>
    /\ signals = <<dataChanged(FalloffModel_index(2, 0), FalloffModel_index(2, 0))>>

-----------------------------------------------------------------------------
(* The hierarchy helpers: coerceIndexToType and coerceIndexToRoots *)

\* item.classDepth: the level of the item's class in the hierarchy
classDepth(item) ==
    CASE item.k = "Simplex" -> 0
      [] item.k = "Group" -> 1
      [] item.k \in {"Slider", "Combo", "Traversal"} -> 2
      [] item.k \in {"ComboPair", "TravPair", "Progression"} -> 3
      [] item.k = "ProgPair" -> 4
\* the classes a selection is coerced to, by one item of each
Types == {simplex, GroupItem(1), SliderItem(1), prog(ComboItem(1)),
          ProgPairItem(prog(SliderItem(1)), 1)}

\* ContextModel.itemFromIndex
itemFromIndex(idx) == internalPointer(idx)

returns(out) == [out |-> out, raised |-> "none"]
\* None.classDepth
AttributeError == [out |-> {}, raised |-> "AttributeError"]
\* what a loop over results leaves: all that was collected, or the error
collect(results) ==
    IF \E r \in results : r.raised # "none" THEN AttributeError
    ELSE returns(UNION {r.out : r \in results})

\* the queue loop of coerceIndexToChildType from checkIdx on
RECURSIVE fallDown(_, _)
fallDown(checkIdx, targetDepth) ==
    IF itemFromIndex(checkIdx) = None THEN AttributeError
    ELSE IF classDepth(itemFromIndex(checkIdx)) < targetDepth
    THEN collect({fallDown(index(row, 0, checkIdx), targetDepth) :
                     row \in 0..(rowCount(checkIdx) - 1)})
    ELSE IF classDepth(itemFromIndex(checkIdx)) = targetDepth
    THEN returns({checkIdx})
    ELSE returns({})

coerceIndexToChildType(ixs, targetDepth) ==
    collect({fallDown(idx, targetDepth) : idx \in ixs})

\* the while loop of coerceIndexToParentType from parIdx on
RECURSIVE climbUp(_, _)
climbUp(parIdx, targetDepth) ==
    IF itemFromIndex(parIdx) = None THEN AttributeError
    ELSE IF classDepth(itemFromIndex(parIdx)) > targetDepth
    THEN climbUp(parent(parIdx), targetDepth)
    ELSE IF classDepth(itemFromIndex(parIdx)) = targetDepth
    THEN returns({parIdx})
    ELSE returns({})

coerceIndexToParentType(ixs, targetDepth) ==
    collect({climbUp(idx, targetDepth) : idx \in ixs})

coerceIndexToType(ixs, typ) ==
    LET targetDepth == classDepth(typ)
        depth(idx) == classDepth(itemFromIndex(idx))
        parents == {idx \in ixs : depth(idx) < targetDepth}
        children == {idx \in ixs : depth(idx) > targetDepth}
        out == {idx \in ixs : depth(idx) = targetDepth}
    IN collect({returns(out), coerceIndexToChildType(parents, targetDepth),
                coerceIndexToParentType(children, targetDepth)})

\* the while / else of coerceIndexToRoots: an ancestor's index is selected
RECURSIVE ancestorSelected(_, _)
ancestorSelected(par, ixs) ==
    IF ~isValid(par) THEN FALSE
    ELSE IF par \in ixs THEN TRUE
    ELSE ancestorSelected(parent(par), ixs)

\* coerceIndexToRoots, as the set of the indexes it returns
coerceIndexToRoots(ixs) ==
    LET firstColumn == {i \in ixs : i.column = 0}
    IN returns({idx \in firstColumn : ~ancestorSelected(parent(idx), firstColumn)})

\* the indexes a view holds: those index() gives for the rows of the tree, in
\* the first column and, for the upper levels, in the second
ViewIndexes ==
    ({index(r, 0, createIndex(0, 0, p)) :
         p \in TreeItems \cup {None}, r \in 0..(MaxPairs + MaxShapes)}
       \cup {index(r, 1, createIndex(0, 0, p)) :
               p \in {None, simplex} \cup Groups, r \in 0..(MaxPairs + MaxShapes)})
      \ {QModelIndex}
\* the selections of up to n of them
RECURSIVE IndexSets(_)
IndexSets(n) ==
    IF n = 0 THEN {{}}
    ELSE IndexSets(n - 1) \cup {ixs \cup {i} : ixs \in IndexSets(n - 1), i \in ViewIndexes}

CoerceCall(op, typ) == [NoCall EXCEPT !.op = op, !.item = typ]

\* coerceIndexToType(indexes, typ)
CoerceIndexToType(typ) ==
    /\ call = NoCall
    /\ call' = CoerceCall("coerceIndexToType", typ)
    /\ coerced' = coerceIndexToType(indexes, typ)
    /\ UNCHANGED <<graphVars, signals, raised, tickVars, filterVars, falloffVars, indexes>>

\* coerceIndexToRoots(indexes)
CoerceIndexToRoots ==
    /\ call = NoCall
    /\ call' = CoerceCall("coerceIndexToRoots", None)
    /\ coerced' = coerceIndexToRoots(indexes)
    /\ UNCHANGED <<graphVars, signals, raised, tickVars, filterVars, falloffVars, indexes>>

\* rigs whose Combo has one or two pairs and a Progression of two shapes
InitCoerceRig ==
    \E ps \in {<<ComboPairItem(ComboItem(1), 1)>>,
               <<ComboPairItem(ComboItem(1), 1), ComboPairItem(ComboItem(1), 2)>>} :
       InitGraphWith(ps)

InitCoerceHelpers ==
    /\ InitCoerceRig
    /\ InitBrackets
    /\ InitTick
    /\ InitFilter
    /\ InitFalloff
    /\ indexes \in IndexSets(MaxIdx)
    /\ coerced = NoResult

NextCoerce ==
    \/ \E typ \in Types : CoerceIndexToType(typ)
    \/ CoerceIndexToRoots

SpecCoerce == InitCoerceHelpers /\ [][NextCoerce]_vars

-----------------------------------------------------------------------------
(* Properties of the hierarchy helpers *)

\* the items below an item in the tree, n levels down at most
RECURSIVE ItemsBelow(_, _)
ItemsBelow(x, n) ==
    IF n = 0 THEN {}
    ELSE LET kids == {getChildItem(x, r) : r \in 0..(getItemRowCount(x) - 1)} \ {None}
         IN kids \cup UNION {ItemsBelow(k, n - 1) : k \in kids}
Below(x) == ItemsBelow(x, 4)
\* the first-column index of an item of the tree: the one index() gives for it
TreeIndex(x) == CHOOSE i \in ViewIndexes : i.column = 0 /\ itemFromIndex(i) = x

\* C13: the result is, without duplicates, the input indexes at the target
\* depth, the indexes of all descendants at the target depth of the shallower
\* input indexes, and for each deeper input index the index of its ancestor
\* at the target depth, if it has one.
C13_CoercionIsTheUnionOfTheThreeCases ==
    call.op = "coerceIndexToType" =>
        LET t == classDepth(call.item)
            depth(i) == classDepth(itemFromIndex(i))
            same == {i \in indexes : depth(i) = t}
            down == {TreeIndex(d) : d \in
                       {d \in UNION {Below(itemFromIndex(i)) :
                                       i \in {j \in indexes : depth(j) < t}} :
                           classDepth(d) = t}}
            up == {TreeIndex(a) : a \in
                     {a \in TreeItems : classDepth(a) = t /\
                         \E i \in indexes : depth(i) > t /\ itemFromIndex(i) \in Below(a)}}
        IN coerced = returns(same \cup down \cup up)

\* C14: the result is the first-column input indexes none of whose ancestors
\* in the tree, at any distance, is among the first-column input indexes.
C14_RootsOfTheSelectedForest ==
    call.op = "coerceIndexToRoots" =>
        LET firstColumn == {i \in indexes : i.column = 0}
        IN coerced = returns({i \in firstColumn :
                                ~\E a \in firstColumn :
                                    itemFromIndex(i) \in Below(itemFromIndex(a))})

-----------------------------------------------------------------------------
(* The descendant chain of the name filter *)

\* the name passes the tests that are set: some token occurs in it, and it is
\* in the isolate list
NamePasses(x) ==
    /\ _filterString = <<>> \/ MatchesSomeToken(name(x))
    /\ isolateList = <<>> \/ name(x) \in Elems(isolateList)
\* an item, its first child that is not None, that child's first child, ...
RECURSIVE FirstChildChain(_, _)
FirstChildChain(x, n) ==
    LET rows == {r \in 0..(getItemRowCount(x) - 1) : getChildItem(x, r) # None}
    IN IF n = 0 \/ rows = {} THEN {x}
       ELSE {x} \cup FirstChildChain(
                        getChildItem(x, CHOOSE r \in rows : \A q \in rows : r <= q), n - 1)
ContainerKinds == {"Slider", "Combo", "ComboPair", "Progression"}

\* C15: with a filter string or an isolate list set, a container row whose
\* own name does not pass is accepted exactly if an item on its chain of
\* first children passes; a passing descendant off that chain does not show
\* it, and a container without children is rejected.
C15_ContainerShownByItsFirstChildChain ==
    (_filterString # <<>> \/ isolateList # <<>>) =>
        \A pr \in TreeRows :
            (RowItem(pr).k \in ContainerKinds /\ ~NamePasses(RowItem(pr))) =>
                /\ SimplexAccepts(pr) <=>
                      \E x \in FirstChildChain(RowItem(pr), 4) : NamePasses(x)
                /\ getItemRowCount(RowItem(pr)) = 0 => ~SimplexAccepts(pr)

\* Slider 2 is hidden although its second shape passes the filter, and the
\* Combo is hidden with it although a shape of its Progression passes; a
\* ComboPair, which has no children, is hidden too
C15_Witness ==
    /\ _filterString = <<<<"x", "b">>>> /\ isolateList = <<>>
    /\ NamePasses(ProgPairItem(prog(SliderItem(2)), 2))
    /\ ~SimplexAccepts(<<GroupItem(1), 1>>)
    /\ pairs[ComboItem(1)] # <<>>
    /\ NamePasses(ProgPairItem(prog(ComboItem(1)), 2))
    /\ ~SimplexAccepts(<<ComboGroupItem, 0>>)
    /\ ~SimplexAccepts(<<ComboItem(1), 0>>)

====
